---- MODULE Spec2Model ----
(***************************************************************************)
(* State-machine model of harbinger's replay server: the archive (har.rs), *)
(* route building and the two request handlers (server.rs).  Text is kept  *)
(* as TLA+ strings so that formatting, parsing and case folding are        *)
(* computed the way the code computes them.                                *)
(***************************************************************************)
EXTENDS Integers, Sequences, FiniteSets, TLC

VARIABLES har, dump_path, fs, proxy, server, listener, req, cands, trail, outcome, upstream,
          failed, blackhole, blackhole_listener, sunk, pages, waiting

vars == <<har, dump_path, fs, proxy, server, listener, req, cands, trail, outcome, upstream,
          failed, blackhole, blackhole_listener, sunk, pages, waiting>>

(***************************************************************************)
(* Text helpers                                                            *)
(***************************************************************************)
None == <<>>

Some(x) == <<x>>

IsSome(o) == Len(o) = 1

Unwrap(o) == o[1]

Min(S) == CHOOSE m \in S : \A n \in S : m <= n

CharAt(s, i) == SubSeq(s, i, i)

CharsOf(s) == {CharAt(s, i) : i \in 1..Len(s)}

\* index of the first character of s that is in set cs, 0 when there is none
IndexOfAny(s, cs) ==
    LET I == {i \in 1..Len(s) : CharAt(s, i) \in cs}
    IN  IF I = {} THEN 0 ELSE Min(I)

\* index at which the first occurrence of pat starts in s, 0 when there is none
Find(s, pat) ==
    LET I == {i \in 1..(Len(s) - Len(pat) + 1) : SubSeq(s, i, i + Len(pat) - 1) = pat}
    IN  IF I = {} THEN 0 ELSE Min(I)

StartsWith(s, pre) == Len(s) >= Len(pre) /\ SubSeq(s, 1, Len(pre)) = pre

EndsWith(s, suf) == Len(s) >= Len(suf) /\ SubSeq(s, Len(s) - Len(suf) + 1, Len(s)) = suf

From(s, i) == SubSeq(s, i, Len(s))

RECURSIVE Split(_, _)
Split(s, sep) ==
    LET i == Find(s, sep)
    IN  IF i = 0 THEN <<s>>
        ELSE <<SubSeq(s, 1, i - 1)>> \o Split(From(s, i + Len(sep)), sep)

RECURSIVE Replace(_, _, _)
Replace(s, pat, to) ==
    LET i == Find(s, pat)
    IN  IF i = 0 THEN s
        ELSE SubSeq(s, 1, i - 1) \o to \o Replace(From(s, i + Len(pat)), pat, to)

Upper == "ABCDEFGHIJKLMNOPQRSTUVWXYZ"

Lower == "abcdefghijklmnopqrstuvwxyz"

LowerChar(c) ==
    LET i == Find(Upper, c)
    IN  IF i = 0 THEN c ELSE CharAt(Lower, i)

RECURSIVE to_ascii_lowercase(_)
to_ascii_lowercase(s) ==
    IF Len(s) = 0 THEN s
    ELSE LowerChar(CharAt(s, 1)) \o to_ascii_lowercase(From(s, 2))

(***************************************************************************)
(* Results: a value, an error value, or a panic (an unwrap on None/Err)    *)
(***************************************************************************)
Ok(v) == [kind |-> "Ok", val |-> v]

Err(e) == [kind |-> "Err", err |-> e]

Panic(why) == [kind |-> "Panic", why |-> why]

IsOk(r) == r.kind = "Ok"

(***************************************************************************)
(* URI references (rocket::http::uri::Reference), as Entry::uri reads them *)
(***************************************************************************)
\* the characters a URI reference may be written with (RFC 3986)
UriChars ==
    CharsOf(Lower) \cup CharsOf(Upper) \cup CharsOf("0123456789")
        \cup CharsOf("-._~:/?#[]@!$&'()*+,;=%")

\* host of an authority "host" or "host:port"
AuthorityOf(a) ==
    LET c == Find(a, ":")
    IN  [text |-> a, host |-> IF c = 0 THEN a ELSE SubSeq(a, 1, c - 1)]

\* scheme, authority, path, query and fragment of a well-formed reference
ParseReference(s) ==
    LET i1     == IndexOfAny(s, {":", "/", "?", "#"})
        scheme == IF i1 > 1 /\ CharAt(s, i1) = ":" THEN Some(SubSeq(s, 1, i1 - 1)) ELSE None
        r1     == IF IsSome(scheme) THEN From(s, i1 + 1) ELSE s
        hasA   == StartsWith(r1, "//")
        a      == From(r1, 3)
        j      == IndexOfAny(a, {"/", "?", "#"})
        auth   == IF ~hasA THEN None
                  ELSE Some(AuthorityOf(IF j = 0 THEN a ELSE SubSeq(a, 1, j - 1)))
        r2     == IF ~hasA THEN r1 ELSE IF j = 0 THEN "" ELSE From(a, j)
        k      == IndexOfAny(r2, {"?", "#"})
        path   == IF k = 0 THEN r2 ELSE SubSeq(r2, 1, k - 1)
        r3     == IF k = 0 THEN "" ELSE From(r2, k)
        f      == Find(r3, "#")
        query  == IF ~StartsWith(r3, "?") THEN None
                  ELSE Some(IF f = 0 THEN From(r3, 2) ELSE SubSeq(r3, 2, f - 1))
    IN  [scheme |-> scheme, authority |-> auth, path |-> path, query |-> query]

\* rocket::http::Method, the verbs a method string can parse to
Methods == {"GET", "PUT", "POST", "DELETE", "OPTIONS", "HEAD", "TRACE", "CONNECT", "PATCH"}

(***************************************************************************)
(* Entry accessors (har.rs)                                                *)
(***************************************************************************)
uri(entry) ==
    IF CharsOf(entry.url) \subseteq UriChars
    THEN Ok(ParseReference(entry.url))
    ELSE Err([error |-> "InvalidHarEntryUri", uri |-> entry.url])

method(entry) ==
    IF entry.method \in Methods
    THEN Ok(entry.method)
    ELSE Err([error |-> "InvalidHarEntryMethod", method |-> entry.method])

\* authority().unwrap() on a parsed reference, then host()
HostOf(u) ==
    IF ~IsOk(u) THEN u
    ELSE IF ~IsSome(u.val.authority) THEN Panic("authority().unwrap()")
    ELSE Ok(Unwrap(u.val.authority).host)

\* Ok(self.uri()?.authority().unwrap().host().to_string())
hostname(entry) == HostOf(uri(entry))

\* str::to_lowercase on the header names of the model, which are ASCII
to_lowercase(s) == to_ascii_lowercase(s)

\* headers.iter().filter(|hdr| hdr.name.to_lowercase() == name).map(value).next():
\* the stored name is lower-cased, the requested name is compared as given
get_header_value(headers, name) ==
    IF \A k \in DOMAIN headers : to_lowercase(headers[k].name) # name THEN None
    ELSE Some(headers[Min({k \in DOMAIN headers : to_lowercase(headers[k].name) = name})].value)

res_header(entry, name) == get_header_value(entry.headers, name)

res_headers(entry) == entry.headers

status(entry) == entry.status

\* base64 STANDARD.decode of the body texts the model draws from: Ok(bytes) or Err
STANDARD_decode(text) ==
    CASE text = ""         -> Ok("")
      [] text = "aGk="     -> Ok("hi")
      [] text = "b2s="     -> Ok("ok")
      [] OTHER             -> Err("DecodeError")

\* a variant that gives no body for a text that is no base64
DecodedOr_OrNothing(d, text) == IF IsOk(d) THEN Some(d.val) ELSE None

DecodedOr(d, text) == IF IsOk(d) THEN Some(d.val) ELSE Some(text)

res_body(entry) ==
    IF ~IsSome(entry.text) THEN None
    ELSE DecodedOr(STANDARD_decode(Unwrap(entry.text)), Unwrap(entry.text))

\* md5 of s as 32 hex digits; the digest itself is not computed
Md5Hex(s) == "d41d8cd98f00b204e9800998ecf8427e"

uniquely_truncate(s, limit) ==
    LET substr == IF Len(s) >= limit - 32 THEN SubSeq(s, 1, limit - 32) ELSE s
    IN  substr \o "_" \o Md5Hex(s)

\* std::path::Path::components of a relative or absolute path string
Components(p) ==
    (IF StartsWith(p, "/") THEN <<"/">> ELSE <<>>)
        \o SelectSeq(Split(p, "/"), LAMBDA c : c # "" /\ c # ".")

\* PathBuf::push: an absolute component replaces the path
PathPush(p, c) ==
    IF StartsWith(c, "/") THEN c
    ELSE IF EndsWith(p, "/") THEN p \o c
    ELSE p \o "/" \o c

RECURSIVE PushParts(_, _)
PushParts(p, parts) ==
    IF parts = <<>> THEN p
    ELSE PushParts(PathPush(p, IF Len(Head(parts)) > 200
                               THEN uniquely_truncate(Head(parts), 200)
                               ELSE Head(parts)),
                   Tail(parts))

\* the path for the URL with its scheme removed, under base/METHOD
DumpPathOf(url, m, base_path) ==
    IF ~IsOk(m) THEN m
    ELSE IF EndsWith(url, "/")
    THEN Ok(PathPush(PushParts(PathPush(base_path, m.val), Components(url)), "__index__"))
    ELSE Ok(PushParts(PathPush(base_path, m.val), Components(url)))

get_dump_path(entry, base_path) ==
    DumpPathOf(Replace(Replace(entry.url, "http://", ""), "https://", ""), method(entry), base_path)

(***************************************************************************)
(* The dump command of main.rs                                             *)
(***************************************************************************)
RECURSIVE PushAll(_, _)
PushAll(p, parts) ==
    IF parts = <<>> THEN p ELSE PushAll(PathPush(p, Head(parts)), Tail(parts))

\* the path for the URL with its scheme removed, under base
EntryPathOf(url, base_path) ==
    IF EndsWith(url, "/")
    THEN PathPush(PushAll(base_path, Components(url)), "__index__")
    ELSE PushAll(base_path, Components(url))

\* the path under which dump() of main.rs writes the entry's body
entry_to_dump_path(base_path, entry) ==
    EntryPathOf(Replace(Replace(entry.url, "http://", ""), "https://", ""), base_path)

(***************************************************************************)
(* Har (har.rs): the archive is the sequence of its entries                *)
(***************************************************************************)
\* Har::new(log): the page id is the first page's; every entry of the log is
\* kept, one of another page with a warning
Har_new(log) ==
    IF ~IsSome(log.pages) THEN Panic("pages.unwrap()")
    ELSE IF Unwrap(log.pages) = <<>> THEN Panic("pages[0]")
    ELSE Ok([entries |-> log.entries, page_id |-> Unwrap(log.pages)[1]])

\* a variant that keeps the query in the key
RouteKey_WithQuery(m, u) ==
    <<m, Unwrap(u.authority).text \o u.path \o "?" \o (IF IsSome(u.query) THEN Unwrap(u.query) ELSE "")>>

\* the route key of an entry: (method, authority + path)
RouteKey(m, u) == <<m, Unwrap(u.authority).text \o u.path>>

\* the map with entry i pushed onto the list of its key
Pushed(map, key, i) ==
    IF key \in DOMAIN map
    THEN [map EXCEPT ![key] = Append(@, i)]
    ELSE map @@ (key :> <<i>>)

\* one pass of the loop of Har::entries: Ok(the map with entry i added), or
\* the error of method()? or uri()?, or the panic of authority().unwrap()
EntryStep(map, i, m, u) ==
    IF ~IsOk(m) THEN m
    ELSE IF ~IsOk(u) THEN u
    ELSE IF ~IsSome(u.val.authority) THEN Panic("authority().unwrap()")
    ELSE Ok(Pushed(map, RouteKey(m.val, u.val), i))

\* the loop of Har::entries from entry i on, acc: Ok(map: route key -> entry indices)
RECURSIVE EntriesFrom(_, _, _)
EntriesFrom(h, i, acc) ==
    IF ~IsOk(acc) \/ i > Len(h) THEN acc
    ELSE EntriesFrom(h, i + 1, EntryStep(acc.val, i, method(h[i]), uri(h[i])))

entries(h) == EntriesFrom(h, 1, Ok(<<>>))

origin_host(h) ==
    IF Len(h) = 0 THEN Panic("entries[0]")
    ELSE hostname(h[1])

(***************************************************************************)
(* Route building (server.rs)                                              *)
(***************************************************************************)
UNFORWARDED_HEADERS ==
    {"x-frame-options", "x-content-type-options", "x-xss-protection",
     "access-control-allow-origin", "access-control-allow-credentials",
     "content-encoding", "transfer-encoding", "content-length"}

get_entry_route_path(entry_uri, origin) ==
    IF ~IsSome(entry_uri.authority) THEN Panic("authority().unwrap()")
    ELSE IF Unwrap(entry_uri.authority).host = origin
    THEN Ok("/" \o entry_uri.path)
    ELSE Ok("/" \o Unwrap(entry_uri.authority).host \o entry_uri.path)

EntryHandler(h, group, dp) == [entries |-> [k \in 1..Len(group) |-> h[group[k]]], dump_path |-> dp]

EntryRoute(m, route_path, handler) ==
    [kind |-> "entry", method |-> m, uri |-> route_path, handler |-> handler]

\* the methods build_server mounts the proxy catch-all for
ProxyMethods == {"GET", "PUT", "POST", "DELETE", "OPTIONS", "HEAD", "TRACE", "CONNECT", "PATCH"}

\* a variant that mounts the catch-all for GET alone
ProxyRoutes_GetOnly(px) ==
    IF ~IsSome(px) THEN {}
    ELSE {[kind |-> "proxy", method |-> "GET", uri |-> "/<any..>",
           handler |-> [proxy_url |-> Unwrap(px)]]}

ProxyRoutes(px) ==
    IF ~IsSome(px) THEN {}
    ELSE {[kind |-> "proxy", method |-> m, uri |-> "/<any..>",
           handler |-> [proxy_url |-> Unwrap(px)]] : m \in ProxyMethods}

\* Route::new(*method, &route_path, handler) for a computed route path
RouteAt(rp, m, handler) == IF ~IsOk(rp) THEN rp ELSE Ok(EntryRoute(m, rp.val, handler))

\* get_entry_route_path(&entries[0].uri()?, &origin_host)?
RoutePathOf(u, origin) == IF ~IsOk(u) THEN u ELSE get_entry_route_path(u.val, origin)

\* one pass of the loop over har.entries()?.iter(): the route of one group
GroupRoute(h, key, group, dp, origin) ==
    RouteAt(RoutePathOf(uri(h[group[1]]), origin), key[1], EntryHandler(h, group, dp))

\* the routes built for the groups of the map, or the errors of the loop
Mounted(built, port, px, origin) ==
    IF \E key \in DOMAIN built : ~IsOk(built[key])
    THEN {built[key] : key \in {k \in DOMAIN built : ~IsOk(built[k])}}
    ELSE {Ok([routes |-> {built[key].val : key \in DOMAIN built} \cup ProxyRoutes(px),
              routed_paths |-> {key[2] : key \in DOMAIN built},
              config |-> [port |-> port, origin_host |-> origin]])}

\* build_server from the loop on, given the origin host and the map
BuildRoutes(h, port, dp, px, oh, map) ==
    IF ~IsOk(oh) THEN {oh}
    ELSE IF ~IsOk(map) THEN {map}
    ELSE Mounted([key \in DOMAIN map.val |-> GroupRoute(h, key, map.val[key], dp, oh.val)],
                 port, px, oh.val)

\* a variant that does not look for the override directory
build_server_Unchecked(h, port, dp, px, files) ==
    BuildRoutes(h, port, dp, px, origin_host(h), entries(h))

\* Every value build_server can return for these arguments.  The HashMap is
\* iterated in an unspecified order and the router does not depend on the
\* order of mounting, so the mounted routes are kept as a set.
build_server(h, port, dp, px, files) ==
    IF IsSome(dp) /\ Unwrap(dp) \notin DOMAIN files
    THEN {Panic("dump path doesn't exist")}
    ELSE BuildRoutes(h, port, dp, px, origin_host(h), entries(h))

(***************************************************************************)
(* The blackhole (blackhole.rs): a Rocket with a port and nothing mounted  *)
(***************************************************************************)
\* a variant that mounts the proxy catch-all
build_blackhole_Mounting(port) ==
    [routes |-> ProxyRoutes(Some([origin |-> "http://upstream:9000", path |-> "/", query |-> None])),
     managed |-> {}, config |-> [port |-> port]]

build_blackhole(port) == [routes |-> {}, managed |-> {}, config |-> [port |-> port]]

(***************************************************************************)
(* EntryHandler (server.rs)                                                *)
(***************************************************************************)
\* the positions of the headers of the list named `name`, without case
Named(headers, lname) ==
    {i \in 1..Len(headers) : to_ascii_lowercase(headers[i].name) = lname}

ReplaceAt(headers, I, name, value) ==
    IF I = {} THEN Append(headers, [name |-> name, value |-> value])
    ELSE [headers EXCEPT ![Min(I)] = [name |-> @.name, value |-> value]]

\* Response::set_raw_header: header names are compared without case, and a
\* header already set under the name has its values replaced
set_raw_header(headers, name, value) ==
    ReplaceAt(headers, Named(headers, to_ascii_lowercase(name)), name, value)

RECURSIVE Join(_, _)
Join(parts, sep) ==
    IF Len(parts) = 0 THEN ""
    ELSE IF Len(parts) = 1 THEN parts[1]
    ELSE parts[1] \o sep \o Join(Tail(parts), sep)

csp_components ==
    <<"base-uri 'self'", "default-src * 'unsafe-inline' 'unsafe-eval'", "worker-src 'self'">>

\* a variant that prefixes the host without a separating slash
new_location_NoSlash(host, value) == "/" \o host \o value

\* the Location value the handler sets for a recorded one
new_location(host, value) ==
    IF StartsWith(value, "/")
    THEN "/" \o host \o value
    ELSE "/" \o host \o "/" \o value

\* a variant that compares the recorded name, not its lower-case form
CopyHeader_CaseSensitive(entry, res, name, value, normalized_name) ==
    IF name \in UNFORWARDED_HEADERS THEN res
    ELSE IF normalized_name = "location"
    THEN set_raw_header(res, name, new_location(hostname(entry).val, value))
    ELSE set_raw_header(res, name, value)

\* one pass of the loop over entry.res_headers()
CopyHeader(entry, res, name, value, normalized_name) ==
    IF normalized_name \in UNFORWARDED_HEADERS THEN res
    ELSE IF normalized_name = "location"
    THEN set_raw_header(res, name, new_location(hostname(entry).val, value))
    ELSE set_raw_header(res, name, value)

\* the loop over entry.res_headers(), from header i on
RECURSIVE CopyHeaders(_, _, _)
CopyHeaders(entry, i, res) ==
    IF i > Len(res_headers(entry)) THEN res
    ELSE CopyHeaders(entry, i + 1,
             CopyHeader(entry, res, res_headers(entry)[i].name, res_headers(entry)[i].value,
                        to_ascii_lowercase(res_headers(entry)[i].name)))

\* a variant in which a path that cannot be read reads as empty
ReadFile_EmptyOnError(f) == Ok(f.bytes)

\* std::fs::read of a path that exists
ReadFile(f) == IF f.kind = "file" THEN Ok(f.bytes) ELSE Err("io error")

\* entry.res_body().unwrap_or(vec![])
BodyOrEmpty(b) == IF IsSome(b) THEN Unwrap(b) ELSE ""

\* a variant that never reads the override file
BodyAt_IgnoreOverride(p, entry, files) ==
    IF ~IsOk(p) THEN p ELSE Ok(BodyOrEmpty(res_body(entry)))

BodyAt(p, entry, files) ==
    IF ~IsOk(p) THEN p
    ELSE IF p.val \in DOMAIN files THEN ReadFile(files[p.val])
    ELSE Ok(BodyOrEmpty(res_body(entry)))

\* Ok(bytes) or Err: the override file when there is one, else the recorded body
get_body(handler, entry, files) ==
    IF IsSome(handler.dump_path)
    THEN BodyAt(get_dump_path(entry, Unwrap(handler.dump_path)), entry, files)
    ELSE Ok(BodyOrEmpty(res_body(entry)))

AsU16(n) == n % 65536

\* the end of the loop body: the response with its body and status, or the failure
Finish(entry, k, hdrs, body) ==
    IF IsOk(body)
    THEN [kind |-> "Success", by |-> k,
          res |-> [status |-> AsU16(status(entry)), headers |-> hdrs, body |-> body.val]]
    ELSE [kind |-> "Failure", by |-> k, status |-> 500]

\* a variant that adds the fixed policy beside a recorded one
Respond_AdjoinCsp(handler, entry, k, files) ==
    Finish(entry, k,
           Append(CopyHeaders(entry, 1, <<>>),
                  [name |-> "content-security-policy", value |-> Join(csp_components, "; ")]),
           get_body(handler, entry, files))

\* the body of the loop for the entry whose query matched
Respond(handler, entry, k, files) ==
    Finish(entry, k,
           set_raw_header(CopyHeaders(entry, 1, <<>>), "content-security-policy",
                          Join(csp_components, "; ")),
           get_body(handler, entry, files))

\* a variant that takes the first entry whatever its query
QueryMatches_AnyQuery(r, u) == IsOk(u)

QueryMatches(r, u) == IsOk(u) /\ r.query = u.val.query

\* the loop over self.entries from entry k on; `by` is the position in the
\* group of the entry that answered (0: none)
RECURSIVE HandleFrom(_, _, _, _)
HandleFrom(handler, r, k, files) ==
    IF k > Len(handler.entries) THEN [kind |-> "Forward", by |-> 0]
    ELSE IF ~IsOk(uri(handler.entries[k])) THEN [kind |-> "Panic", by |-> k]
    ELSE IF QueryMatches(r, uri(handler.entries[k]))
    THEN Respond(handler, handler.entries[k], k, files)
    ELSE HandleFrom(handler, r, k + 1, files)

EntryHandler_handle(handler, r, files) == HandleFrom(handler, r, 1, files)

(***************************************************************************)
(* ProxyHandler (server.rs)                                                *)
(***************************************************************************)
\* the URL sent upstream: the configured URL with the request's path, and
\* with the request's query when it has one
UpstreamUrl(proxy_url, r) ==
    [origin |-> proxy_url.origin, path |-> r.path,
     query  |-> IF IsSome(r.query) THEN r.query ELSE proxy_url.query]

\* the reqwest method for the request's method
reqwest_Method(m) ==
    CASE m = "GET" -> "GET"         [] m = "PUT" -> "PUT"
      [] m = "POST" -> "POST"       [] m = "DELETE" -> "DELETE"
      [] m = "OPTIONS" -> "OPTIONS" [] m = "HEAD" -> "HEAD"
      [] m = "TRACE" -> "TRACE"     [] m = "CONNECT" -> "CONNECT"
      [] m = "PATCH" -> "PATCH"

\* the call made upstream: client.request(method, proxy_url)
proxy_req(handler, r) ==
    [method |-> reqwest_Method(r.method), url |-> UpstreamUrl(handler.proxy_url, r)]

\* the status codes Status::from_code knows
StandardCodes ==
    {100, 101, 102} \cup (200..208) \cup {226} \cup (300..305) \cup {307, 308}
        \cup (400..418) \cup (421..426) \cup {428, 429, 431, 451}
        \cup (500..508) \cup {510, 511}

\* the bytes HeaderValue::to_str accepts: visible ASCII, space and tab (the
\* grave accent, which no TLA+ string can hold, is left out)
VisibleAscii ==
    CharsOf(" !#$%&'()*+,-./0123456789:;<=>?@ABCDEFGHIJKLMNOPQRSTUVWXYZ[]^_abcdefghijklmnopqrstuvwxyz{|}~")
        \cup {"\t", "\"", "\\"}

to_str(value) ==
    IF CharsOf(value) \subseteq VisibleAscii THEN Ok(value) ELSE Err("ToStrError")

RECURSIVE AdjoinAll(_, _)
AdjoinAll(hs, res) ==
    IF hs = <<>> THEN res ELSE AdjoinAll(Tail(hs), Append(res, Head(hs)))

\* a variant that answers a transport failure with an empty success
ProxyHandler_handle_SwallowError(handler, r, up) ==
    [kind |-> "Success", by |-> 0,
     res |-> IF up.kind = "transport_error"
             THEN [status |-> 200, headers |-> <<>>, body |-> ""]
             ELSE [status |-> up.status, headers |-> up.headers, body |-> ""]]

\* a variant that unwraps the body as it unwraps the call
ProxyHandler_handle_BodyUnwrapped(handler, r, up) ==
    IF up.kind = "transport_error" THEN [kind |-> "Panic", by |-> 0]
    ELSE IF up.status \notin StandardCodes THEN [kind |-> "Panic", by |-> 0]
    ELSE IF \E i \in DOMAIN up.headers : ~IsOk(to_str(up.headers[i].value))
    THEN [kind |-> "Panic", by |-> 0]
    ELSE IF ~IsSome(up.body) THEN [kind |-> "Panic", by |-> 0]
    ELSE [kind |-> "Success", by |-> 0,
          res |-> [status |-> up.status, headers |-> AdjoinAll(up.headers, <<>>),
                   body |-> Unwrap(up.body)]]

\* up: what the upstream does with the call; a failed unwrap panics
ProxyHandler_handle(handler, r, up) ==
    IF up.kind = "transport_error" THEN [kind |-> "Panic", by |-> 0]
    ELSE IF up.status \notin StandardCodes THEN [kind |-> "Panic", by |-> 0]
    ELSE IF \E i \in DOMAIN up.headers : ~IsOk(to_str(up.headers[i].value))
    THEN [kind |-> "Panic", by |-> 0]
    ELSE [kind |-> "Success", by |-> 0,
          res |-> [status |-> up.status, headers |-> AdjoinAll(up.headers, <<>>),
                   body |-> IF IsSome(up.body) THEN Unwrap(up.body) ELSE ""]]

(***************************************************************************)
(* Routing (Rocket): a mounted route matches a request by method and path  *)
(* segments; static routes rank before the catch-all                       *)
(***************************************************************************)
Segments(path) == SelectSeq(Split(path, "/"), LAMBDA c : c # "")

RouteMatches(route, r) ==
    /\ route.method = r.method
    /\ route.kind = "entry" => Segments(route.uri) = Segments(r.path)

Collide(a, b) ==
    /\ a.kind = b.kind
    /\ a.method = b.method
    /\ Segments(a.uri) = Segments(b.uri)

HasCollision(routes) ==
    \E a, b \in routes : a # b /\ Collide(a, b)

\* the routes matching r in the order the router tries them: the static
\* entry route, then the catch-all
Candidates(routes, r) ==
    LET of(kind) == {rt \in routes : rt.kind = kind /\ RouteMatches(rt, r)}
        seq(S)   == IF S = {} THEN <<>> ELSE <<CHOOSE rt \in S : TRUE>>
    IN  seq(of("entry")) \o seq(of("proxy"))

(***************************************************************************)
(* Inputs                                                                  *)
(***************************************************************************)
MaxEntries == 2

MaxHeaders == 2

Port == 8000

\* the port entered for the blackhole (its default)
BlackholePort == 8001

DumpDir == "/dump"

Entry(m, u, st, hs, t) ==
    [method |-> m, url |-> u, status |-> st, headers |-> hs, text |-> t,
     pageref |-> Some("page_1")]

\* the entry as captured on another page, or without a page reference
OnPage(e, ref) == [e EXCEPT !.pageref = ref]

Header(n, v) == [name |-> n, value |-> v]

\* archive entries: one path recorded under several queries, hosts and methods,
\* an origin-relative URL, an unknown verb and a URL that is no URI reference
EntryPool ==
    { Entry("GET", "https://example.com/a?x=1", 200, <<Header("Content-Type", "text/html")>>, Some("aGk=")),
      Entry("GET", "https://example.com/a?x=2", 404, <<>>, Some("<p>no</p>")),
      Entry("GET", "https://example.com/a?x=1", 302, <<Header("Location", "/foo")>>, None),
      Entry("GET", "http://example.com:8080/a", 200, <<Header("content-length", "2")>>, Some("b2s=")),
      Entry("GET", "https://cdn.net/a?x=1", 200, <<Header("X-Frame-Options", "DENY")>>, Some("aGk=")),
      Entry("POST", "https://example.com/a", 65736, <<Header("Location", "foo")>>, Some("")),
      Entry("GET", "/a", 200, <<>>, None),
      Entry("FETCH", "https://example.com/a", 200, <<>>, None),
      Entry("GET", "https://exa mple.com/a", 200, <<>>, None) }

Archives == UNION {[1..n -> EntryPool] : n \in 1..MaxEntries}

\* recorded response headers: the denylist in several letter cases, recorded
\* policies, redirects and a repeated name
HeaderPool ==
    { Header("X-Frame-Options", "DENY"), Header("x-content-type-options", "nosniff"),
      Header("X-XSS-Protection", "1"), Header("Access-Control-Allow-Origin", "*"),
      Header("ACCESS-CONTROL-ALLOW-CREDENTIALS", "true"), Header("Content-Encoding", "gzip"),
      Header("Transfer-Encoding", "chunked"), Header("Content-Length", "2"),
      Header("Content-Security-Policy", "default-src 'none'"),
      Header("CONTENT-SECURITY-POLICY", "script-src 'self'"),
      Header("Location", "/foo"), Header("location", "foo"),
      Header("Set-Cookie", "a=1"), Header("Set-Cookie", "b=2") }

HeaderLists == UNION {[1..n -> HeaderPool] : n \in 0..MaxHeaders}

\* entries of a capture of two pages
PagedPool ==
    {OnPage(e, ref) :
        e \in { Entry("GET", "https://example.com/a?x=1", 200, <<>>, Some("aGk=")),
                Entry("GET", "https://example.com/a?x=2", 404, <<>>, Some("<p>no</p>")) },
        ref \in {Some("page_1"), Some("page_2"), None}}

PagedArchives == UNION {[1..n -> PagedPool] : n \in 1..MaxEntries}

RECURSIVE Repeat(_, _)
Repeat(c, n) ==
    IF n = 0 THEN ""
    ELSE IF n % 2 = 1 THEN c \o Repeat(c, n - 1)
    ELSE Repeat(c \o c, n \div 2)

\* single recordings whose URL ends in "/", with and without a query, and
\* whose last component is 200 and 201 bytes long
PathArchives ==
    {<<Entry("GET", u, 200, <<>>, Some("aGk="))>> :
        u \in {"https://example.com/dir/", "https://example.com/dir/?x=1",
               "https://example.com/" \o Repeat("a", 200),
               "https://example.com/" \o Repeat("a", 201)}}

\* the archives Har::new makes of the logs with these pages and entries
Loaded(pgs, sources) ==
    {Har_new([pages |-> Some(pgs), entries |-> es]).val.entries : es \in sources}

HeaderArchives ==
    {<<Entry("GET", u, 200, hs, Some("aGk="))>> :
        u \in {"http://cdn.net:81/a?x=1"}, hs \in HeaderLists}

Dir == [kind |-> "dir", bytes |-> ""]

File(bytes) == [kind |-> "file", bytes |-> bytes]

\* the override paths of the entries of an archive
OverridePaths(h) ==
    {get_dump_path(h[i], DumpDir).val : i \in {j \in DOMAIN h : IsOk(method(h[j]))}}

\* file systems: nothing, the override directory alone, or the directory with
\* a file or a directory at one entry's override path
FsPool(h) ==
    {<<>>, DumpDir :> Dir}
        \cup {(p :> f) @@ (DumpDir :> Dir) : p \in OverridePaths(h), f \in {File("OVERRIDE"), Dir}}

\* the file systems with a file at an override path
WithFile(h) == {f \in FsPool(h) : \E p \in DOMAIN f : f[p].kind = "file"}

ProxyUrl == [origin |-> "http://upstream:9000", path |-> "/", query |-> None]

\* an upstream URL that has a query of its own
ProxyUrlWithQuery == [origin |-> "http://upstream:9000", path |-> "/api", query |-> Some("token=1")]

RequestPool ==
    [method : {"GET"}, path : {"/a", "/cdn.net/a"}, query : {None, Some("x=1"), Some("x=2")}]
        \cup {[method |-> "POST", path |-> "/a", query |-> None],
              [method |-> "GET", path |-> "/missing", query |-> Some("x=9")]}

Reply(st, hs, b) == [kind |-> "response", status |-> st, headers |-> hs, body |-> b]

\* what the upstream does: no connection, a reply with denylisted and repeated
\* headers, a reply whose body cannot be read, a status outside the registry,
\* and a header value that is not ASCII
UpstreamPool ==
    { [kind |-> "transport_error"],
      Reply(200, <<Header("X-Frame-Options", "DENY"), Header("Set-Cookie", "a=1"),
                   Header("Set-Cookie", "b=2"), Header("Location", "/foo")>>, Some("up")),
      Reply(404, <<Header("Content-Length", "2")>>, None),
      Reply(520, <<>>, Some("up")),
      Reply(200, <<Header("X-Name", "café")>>, Some("up")) }

(***************************************************************************)
(* The state machine                                                       *)
(***************************************************************************)
Init ==
    /\ \/ /\ pages = <<"page_1">>
          /\ har \in Loaded(pages, Archives)
          /\ \/ dump_path = None /\ fs = <<>> /\ proxy \in {None, Some(ProxyUrl)}
             \/ dump_path = None /\ fs \in WithFile(har) /\ proxy = None
             \/ dump_path = Some(DumpDir) /\ fs \in FsPool(har) /\ proxy = None
             \/ dump_path = Some(DumpDir) /\ fs \in FsPool(har) \ WithFile(har)
                                          /\ proxy = Some(ProxyUrl)
       \/ /\ pages = <<"page_1">>
          /\ har \in Loaded(pages, {h \in Archives : Len(h) = 1})
          /\ dump_path = None
          /\ fs = <<>>
          /\ proxy = Some(ProxyUrlWithQuery)
       \/ /\ pages = <<"page_1">>
          /\ har \in Loaded(pages, HeaderArchives)
          /\ dump_path = None
          /\ fs = <<>>
          /\ proxy = None
       \/ /\ pages = <<"page_1", "page_2">>
          /\ har \in Loaded(pages, PagedArchives)
          /\ dump_path = None
          /\ fs = <<>>
          /\ proxy = None
       \/ /\ pages = <<"page_1">>
          /\ har \in Loaded(pages, PathArchives)
          /\ dump_path = Some(DumpDir)
          /\ fs \in FsPool(har)
          /\ proxy = None
    /\ server = [kind |-> "Unbuilt"]
    /\ listener = "none"
    /\ req = None
    /\ cands = <<>>
    /\ trail = <<>>
    /\ outcome = None
    /\ upstream = <<>>
    /\ failed = "none"
    /\ blackhole = [kind |-> "Unbuilt"]
    /\ blackhole_listener = "none"
    /\ sunk = None
    /\ waiting = None

\* server_guide: build_server(&har, port, dump_path, proxy).expect(..), then
\* build_blackhole(port); a failed build ends the process before the second
BuildServer ==
    /\ server.kind = "Unbuilt"
    /\ \E result \in build_server(har, Port, dump_path, proxy, fs) :
         /\ server' = result
         /\ blackhole' = IF IsOk(result) THEN Ok(build_blackhole(Port)) ELSE blackhole
    /\ UNCHANGED <<har, dump_path, fs, proxy, listener, req, cands, trail, outcome, upstream,
                   failed, blackhole_listener, sunk, pages, waiting>>

\* how join!(harbinger_server.launch(), blackhole.launch()) can end, as
\* <<replay listener, blackhole listener>>: Rocket refuses to start a route
\* table with colliding routes, and of two listeners binding one port the
\* second to bind fails
Launched(srv, bh) ==
    IF HasCollision(srv.routes) THEN {<<"failed", "serving">>}
    ELSE IF srv.config.port # bh.config.port THEN {<<"serving", "serving">>}
    ELSE {<<"serving", "failed">>, <<"failed", "serving">>}

\* server_guide: join!(harbinger_server.launch(), blackhole.launch())
Launch ==
    /\ server.kind = "Ok"
    /\ listener = "none"
    /\ \E l \in Launched(server.val, blackhole.val) :
         listener' = l[1] /\ blackhole_listener' = l[2]
    /\ UNCHANGED <<har, dump_path, fs, proxy, server, req, cands, trail, outcome, upstream,
                   failed, blackhole, sunk, pages, waiting>>

\* the request ended in a failure outcome or a panic
Errored(o) == o # None /\ Unwrap(o).out.kind \in {"Failure", "Panic"}

\* why it did: the body could not be read, the upstream could not be reached,
\* or its reply could not be relayed
Cause(o, up) ==
    IF Unwrap(o).via = "entry" THEN "body"
    ELSE IF up[Len(up)].reply.kind = "transport_error" THEN "transport"
    ELSE "relay"

\* a request arrives and the router lists the routes that match it; failed
\* remembers why the last request that ended in an error did
Receive(r) ==
    /\ listener = "serving"
    /\ req = None \/ outcome # None
    /\ req' = Some(r)
    /\ cands' = Candidates(server.val.routes, r)
    /\ trail' = <<>>
    /\ outcome' = None
    /\ upstream' = <<>>
    /\ failed' = IF Errored(outcome) THEN Cause(outcome, upstream) ELSE failed
    /\ UNCHANGED <<har, dump_path, fs, proxy, server, listener, blackhole, blackhole_listener, sunk, pages, waiting>>

\* Rocket's default catcher: the response for a failure, a panic in a handler
\* or a request no route answered
DefaultCatcher(code) ==
    [status |-> code, headers |-> <<Header("Content-Type", "text/html; charset=utf-8")>>,
     body |-> "error page"]

\* the response the client gets for a handler's outcome
ClientResponse(out) ==
    CASE out.kind = "Success" -> out.res
      [] out.kind = "Failure" -> DefaultCatcher(out.status)
      [] out.kind = "Panic"   -> DefaultCatcher(500)
      [] OTHER                -> DefaultCatcher(404)

Answered(via, out) == Some([via |-> via, out |-> out, response |-> ClientResponse(out)])

\* the handler's outcome ends the request unless it forwards
Settle(out) ==
    IF out.kind = "Forward"
    THEN cands' = Tail(cands) /\ outcome' = None
    ELSE cands' = <<>> /\ outcome' = Answered("entry", out)

\* a variant in which the handler drops the first entry of its group
EntryHandle_Consuming ==
    /\ req # None /\ outcome = None /\ cands # <<>>
    /\ Head(cands).kind = "entry"
    /\ trail' = Append(trail, Head(cands))
    /\ Settle(EntryHandler_handle(Head(cands).handler, Unwrap(req), fs))
    /\ server' = [server EXCEPT !.val.routes =
                      (@ \ {Head(cands)})
                          \cup {[Head(cands) EXCEPT !.handler.entries = Tail(@)]}]
    /\ UNCHANGED <<har, dump_path, fs, proxy, listener, req, upstream, failed, blackhole,
                   blackhole_listener, sunk, pages, waiting>>

\* EntryHandler::handle on the next matching route
EntryHandle ==
    /\ req # None /\ outcome = None /\ cands # <<>>
    /\ Head(cands).kind = "entry"
    /\ trail' = Append(trail, Head(cands))
    /\ Settle(EntryHandler_handle(Head(cands).handler, Unwrap(req), fs))
    /\ UNCHANGED <<har, dump_path, fs, proxy, server, listener, req, upstream, failed, blackhole, blackhole_listener, sunk, pages, waiting>>

\* ProxyHandler::handle on the next matching route
ProxyHandle ==
    /\ req # None /\ outcome = None /\ cands # <<>>
    /\ Head(cands).kind = "proxy"
    /\ \E up \in UpstreamPool :
         /\ upstream' = Append(upstream, [call  |-> proxy_req(Head(cands).handler, Unwrap(req)),
                                          reply |-> up])
         /\ trail' = Append(trail, Head(cands))
         /\ cands' = <<>>
         /\ outcome' = Answered("proxy", ProxyHandler_handle(Head(cands).handler, Unwrap(req), up))
    /\ UNCHANGED <<har, dump_path, fs, proxy, server, listener, req, failed, blackhole, blackhole_listener, sunk, pages, waiting>>

\* a variant in which the suspended call keeps the listener to itself until
\* the upstream has replied
ProxyCall_Holding ==
    /\ req # None /\ outcome = None /\ cands # <<>>
    /\ Head(cands).kind = "proxy"
    /\ waiting = None
    /\ waiting' = Some([req   |-> Unwrap(req),
                        trail |-> Append(trail, Head(cands)),
                        call  |-> proxy_req(Head(cands).handler, Unwrap(req))])
    /\ req' = None /\ cands' = <<>> /\ trail' = <<>>
    /\ listener' = "held"
    /\ UNCHANGED <<har, dump_path, fs, proxy, server, outcome, upstream, failed,
                   blackhole, blackhole_listener, sunk, pages>>

\* ProxyHandler::handle up to client.execute(req).await: the call is sent with
\* a client made for this request and the handler is suspended, which leaves
\* the server free for other requests; the model keeps one call in flight
ProxyCall ==
    /\ req # None /\ outcome = None /\ cands # <<>>
    /\ Head(cands).kind = "proxy"
    /\ waiting = None
    /\ waiting' = Some([req   |-> Unwrap(req),
                        trail |-> Append(trail, Head(cands)),
                        call  |-> proxy_req(Head(cands).handler, Unwrap(req))])
    /\ req' = None /\ cands' = <<>> /\ trail' = <<>>
    /\ UNCHANGED <<har, dump_path, fs, proxy, server, listener, outcome, upstream, failed,
                   blackhole, blackhole_listener, sunk, pages>>

\* the rest of ProxyHandler::handle, once the upstream has replied or the
\* call has failed: the suspended request gets its response
ProxyReturn ==
    /\ waiting # None
    /\ req = None \/ outcome # None
    /\ \E up \in UpstreamPool :
         /\ upstream' = <<[call |-> Unwrap(waiting).call, reply |-> up]>>
         /\ outcome' = Answered("proxy",
                                ProxyHandler_handle(Unwrap(waiting).trail[Len(Unwrap(waiting).trail)].handler,
                                                    Unwrap(waiting).req, up))
    /\ req' = Some(Unwrap(waiting).req)
    /\ trail' = Unwrap(waiting).trail
    /\ cands' = <<>>
    /\ failed' = IF Errored(outcome) THEN Cause(outcome, upstream) ELSE failed
    /\ waiting' = None
    /\ UNCHANGED <<har, dump_path, fs, proxy, server, listener, blackhole, blackhole_listener,
                   sunk, pages>>

\* no route is left: Rocket's default not-found response
NotFound ==
    /\ req # None /\ outcome = None /\ cands = <<>>
    /\ outcome' = Answered("router", [kind |-> "NotFound", by |-> 0])
    /\ UNCHANGED <<har, dump_path, fs, proxy, server, listener, req, cands, trail, upstream, failed, blackhole, blackhole_listener, sunk, pages, waiting>>

\* a request to the blackhole listener: no route matches it, so the router
\* answers with the default not-found response
BlackholeHandle(r) ==
    /\ blackhole_listener = "serving"
    /\ Candidates(blackhole.val.routes, r) = <<>>
    /\ sunk' = Some([req |-> r, response |-> DefaultCatcher(404)])
    /\ UNCHANGED <<har, dump_path, fs, proxy, server, listener, req, cands, trail, outcome,
                   upstream, failed, blackhole, blackhole_listener, pages, waiting>>

Next ==
    \/ BuildServer
    \/ Launch
    \/ \E r \in RequestPool : Receive(r)
    \/ \E r \in RequestPool : BlackholeHandle(r)
    \/ EntryHandle
    \/ ProxyHandle
    \/ NotFound

Spec == Init /\ [][Next]_vars

\* the replay server behind a proxy, with one proxied call that may stay
\* pending while other requests are handled
ConcInit ==
    /\ pages = <<"page_1">>
    /\ har \in Loaded(pages, Archives)
    /\ dump_path = None
    /\ fs = <<>>
    /\ proxy = Some(ProxyUrl)
    /\ server = [kind |-> "Unbuilt"]
    /\ listener = "none"
    /\ req = None
    /\ cands = <<>>
    /\ trail = <<>>
    /\ outcome = None
    /\ upstream = <<>>
    /\ failed = "none"
    /\ blackhole = [kind |-> "Unbuilt"]
    /\ blackhole_listener = "none"
    /\ sunk = None
    /\ waiting = None

ConcNext ==
    \/ BuildServer
    \/ Launch
    \/ \E r \in RequestPool : Receive(r)
    \/ EntryHandle
    \/ ProxyHandle
    \/ ProxyCall
    \/ ProxyReturn

SpecConcurrent == ConcInit /\ [][ConcNext]_vars

(***************************************************************************)
(* Properties                                                              *)
(***************************************************************************)
Finished == outcome # None

Out == Unwrap(outcome).out

Response == Unwrap(outcome).response

ByEntryHandler == Finished /\ Unwrap(outcome).via = "entry"

\* the query string of a recorded URL: the text between "?" and "#", if any
QueryOfUrl(url) ==
    LET q    == Find(url, "?")
        rest == From(url, q + 1)
        f    == Find(rest, "#")
    IN  IF q = 0 THEN None
        ELSE IF f = 0 THEN Some(rest) ELSE Some(SubSeq(rest, 1, f - 1))

\* the positions in a group of the entries recorded with the request's query
QueryMatchesIn(es) == {k \in DOMAIN es : QueryOfUrl(es[k].url) = Unwrap(req).query}

\* C1: a route group that handled a request answered from its earliest entry
\* whose query equals the request's; with no such entry it gave no response
\* and the request was forwarded.
C1_EarliestQueryMatch ==
    \A t \in DOMAIN trail :
        trail[t].kind = "entry" =>
            LET es == trail[t].handler.entries
                M  == QueryMatchesIn(es)
            IN  IF M = {}
                THEN ~ByEntryHandler
                ELSE /\ ByEntryHandler
                     /\ Out.kind \in {"Success", "Failure"}
                     /\ Out.by = Min(M)
                     /\ Out.kind = "Success" => Out.res.status = es[Min(M)].status % 65536

\* C1 witness: a group with two entries of the request's query answered, and
\* the two entries differ in status
C1_Witness ==
    /\ ByEntryHandler /\ Out.kind = "Success"
    /\ \E j, k \in QueryMatchesIn(trail[1].handler.entries) :
          /\ j < k
          /\ trail[1].handler.entries[j].status # trail[1].handler.entries[k].status
    /\ Unwrap(req).query = Some("x=1")

\* C1 witness for the forward: a group was tried and none of its entries has the query
C1_WitnessForward ==
    /\ Finished /\ Len(trail) >= 1 /\ trail[1].kind = "entry"
    /\ QueryMatchesIn(trail[1].handler.entries) = {}

\* the recorded group a request is routed to, if any: same method, same path segments
GroupsFor(r) ==
    IF server.kind # "Ok" THEN {}
    ELSE {rt \in server.val.routes :
            rt.kind = "entry" /\ rt.method = r.method /\ Segments(rt.uri) = Segments(r.path)}

RecordingMatches(r) ==
    \E rt \in GroupsFor(r) : \E k \in DOMAIN rt.handler.entries :
        QueryOfUrl(rt.handler.entries[k].url) = r.query

C2_WitnessRecorded ==
    /\ ByEntryHandler /\ IsSome(proxy) /\ upstream = <<>>

\* the names the handler never copies from the recording
DenyList ==
    {"x-frame-options", "x-content-type-options", "x-xss-protection",
     "access-control-allow-origin", "access-control-allow-credentials",
     "content-encoding", "transfer-encoding", "content-length"}

\* C3: no response of EntryHandler::handle carries a header whose name,
\* compared without case, is in the denylist.
C3_NoDeniedHeader ==
    (ByEntryHandler /\ Out.kind = "Success") =>
        \A i \in DOMAIN Out.res.headers :
            to_ascii_lowercase(Out.res.headers[i].name) \notin DenyList

\* the entry of the group that answered
Answering == trail[1].handler.entries[Out.by]

\* C3 witness: the answering entry recorded a denylisted header under a name
\* that is not all lower case
C3_Witness ==
    /\ ByEntryHandler /\ Out.kind = "Success"
    /\ \E i \in DOMAIN Answering.headers :
          /\ to_ascii_lowercase(Answering.headers[i].name) \in DenyList
          /\ Answering.headers[i].name \notin DenyList
    /\ Len(Out.res.headers) >= 2

\* the values of the headers of a list named content-security-policy, without case
CspValues(headers) ==
    SelectSeq([i \in DOMAIN headers |->
                 IF to_ascii_lowercase(headers[i].name) = "content-security-policy"
                 THEN Some(headers[i].value) ELSE None],
              LAMBDA v : IsSome(v))

FixedCsp == "base-uri 'self'; default-src * 'unsafe-inline' 'unsafe-eval'; worker-src 'self'"

\* C4 (as claimed): every response to a request the entry handler ended,
\* the one for a failed body read included, has the fixed policy as its one
\* Content-Security-Policy value.
C4_CspOnEveryResponse ==
    ByEntryHandler => CspValues(Response.headers) = <<Some(FixedCsp)>>

\* C4 (amended): every response EntryHandler::handle itself returns
\* (Outcome::Success) has the fixed policy as its one Content-Security-Policy
\* value, whatever policy the entry recorded and in whatever letter case.
C4_CspOnSuccess ==
    (ByEntryHandler /\ Out.kind = "Success") =>
        /\ CspValues(Response.headers) = <<Some(FixedCsp)>>
        /\ Response = Out.res

\* C4 witness: the answering entry recorded its own policy in upper case
C4_Witness ==
    /\ ByEntryHandler /\ Out.kind = "Success"
    /\ \E i \in DOMAIN Answering.headers :
          Answering.headers[i].name = "CONTENT-SECURITY-POLICY"

\* the recorded body of an entry: the decoded text, the text itself when it
\* is no base64, nothing when no text was recorded
Embedded(e) ==
    IF e.text = None THEN ""
    ELSE IF STANDARD_decode(Unwrap(e.text)).kind = "Ok"
    THEN STANDARD_decode(Unwrap(e.text)).val
    ELSE Unwrap(e.text)

C5_WitnessUnconfigured ==
    /\ ByEntryHandler /\ Out.kind = "Success"
    /\ ~IsSome(trail[1].handler.dump_path)
    /\ get_dump_path(Answering, DumpDir).val \in DOMAIN fs
    /\ Out.res.body = "hi"

\* the host of a recorded absolute URL: after "//", up to the port or the path
HostOfUrl(url) ==
    LET a == From(url, Find(url, "//") + 2)
        e == IndexOfAny(a, {":", "/", "?", "#"})
    IN  IF e = 0 THEN a ELSE SubSeq(a, 1, e - 1)

Locations(headers) ==
    SelectSeq([i \in DOMAIN headers |->
                 IF to_ascii_lowercase(headers[i].name) = "location"
                 THEN Some(headers[i].value) ELSE None],
              LAMBDA v : IsSome(v))

\* C6: the replayed Location of an entry recorded on host H with Location V
\* is "/" H V when V starts with "/" and "/" H "/" V otherwise (the last
\* recorded Location when several were); "/foo" and "foo" on example.com both
\* give "/example.com/foo".
C6_LocationRewrite ==
    (ByEntryHandler /\ Out.kind = "Success" /\ Locations(Answering.headers) # <<>>) =>
        LET H == HostOfUrl(Answering.url)
            L == Locations(Answering.headers)
            V == Unwrap(L[Len(L)])
        IN  /\ Locations(Out.res.headers)
                 = <<Some(IF SubSeq(V, 1, 1) = "/" THEN "/" \o H \o V ELSE "/" \o H \o "/" \o V)>>
            /\ (H = "example.com" /\ V \in {"/foo", "foo"}) =>
                 Locations(Out.res.headers) = <<Some("/example.com/foo")>>
            /\ (H = "cdn.net" /\ V \in {"/foo", "foo"}) =>
                 Locations(Out.res.headers) = <<Some("/cdn.net/foo")>>

\* C6 witness: a relative Location recorded on example.com was replayed
C6_Witness ==
    /\ ByEntryHandler /\ Out.kind = "Success"
    /\ Locations(Answering.headers) = <<Some("foo")>>
    /\ HostOfUrl(Answering.url) = "example.com"
    /\ Locations(Out.res.headers) = <<Some("/example.com/foo")>>

\* C6 witness: a root-relative Location recorded on a host with a port
C6_WitnessRooted ==
    /\ ByEntryHandler /\ Out.kind = "Success"
    /\ Locations(Answering.headers) = <<Some("/foo")>>
    /\ Answering.url = "http://cdn.net:81/a?x=1"
    /\ Locations(Out.res.headers) = <<Some("/cdn.net/foo")>>

\* authority and path of a recorded absolute URL: after "//", up to "?" or "#"
AuthorityPathOfUrl(url) ==
    LET a == From(url, Find(url, "//") + 2)
        e == IndexOfAny(a, {"?", "#"})
    IN  IF e = 0 THEN a ELSE SubSeq(a, 1, e - 1)

\* the path of a recorded absolute URL
PathOfUrl(url) ==
    LET ap == AuthorityPathOfUrl(url)
        sl == Find(ap, "/")
    IN  IF sl = 0 THEN "" ELSE From(ap, sl)

EntryRoutes == {rt \in server.val.routes : rt.kind = "entry"}

\* the archive of the example: GET .../a?x=1 then GET .../a?x=2
ExampleArchive ==
    /\ Len(har) = 2
    /\ har[1].method = "GET" /\ har[1].url = "https://example.com/a?x=1"
    /\ har[2].method = "GET" /\ har[2].url = "https://example.com/a?x=2"

\* C7: the groups of Har::entries partition the archive by (method,
\* authority + path), each group lists its entries in capture order, and
\* build_server mounts one route per group holding the group's entries; the
\* two-entry example gives one route and ?x=2 is answered from the second entry.
C7_GroupsPartitionArchive ==
    /\ server.kind = "Ok" =>
          LET map == entries(har).val
              groupsOf(i) == {key \in DOMAIN map : \E k \in DOMAIN map[key] : map[key][k] = i}
          IN  /\ \A i \in DOMAIN har : Cardinality(groupsOf(i)) = 1
              /\ \A i, j \in DOMAIN har :
                    (groupsOf(i) = groupsOf(j))
                        <=> /\ har[i].method = har[j].method
                            /\ AuthorityPathOfUrl(har[i].url) = AuthorityPathOfUrl(har[j].url)
              /\ \A key \in DOMAIN map : \A a, b \in DOMAIN map[key] :
                    a < b => map[key][a] < map[key][b]
              /\ Cardinality(EntryRoutes) = Cardinality(DOMAIN map)
              /\ \A key \in DOMAIN map :
                    Cardinality({rt \in EntryRoutes :
                        /\ rt.method = key[1]
                        /\ rt.handler.entries = [k \in DOMAIN map[key] |-> har[map[key][k]]]}) = 1
              /\ ExampleArchive => Cardinality(EntryRoutes) = 1
    /\ ( /\ ExampleArchive /\ Finished
         /\ Unwrap(req) = [method |-> "GET", path |-> "/a", query |-> Some("x=2")] ) =>
          /\ ByEntryHandler /\ Out.by = 2
          /\ Out.kind = "Success" => Out.res.status = har[2].status
          /\ dump_path = None => (Out.kind = "Success" /\ Out.res.body = Embedded(har[2]))

\* C7 witness: in the example the request with ?x=2 got the second entry's
\* status and body, with the first entry of another status ahead of it
C7_Witness ==
    /\ ExampleArchive /\ ByEntryHandler /\ Out.kind = "Success"
    /\ Unwrap(req).query = Some("x=2")
    /\ Out.by = 2 /\ Out.res.status = 404 /\ Out.res.body = "<p>no</p>"
    /\ har[1].status # 404

\* C8 (as claimed): the path computed for a group is the URL path alone when
\* the entry's host is the host of the first entry, and "/" hostname path
\* when it differs.
C8_RoutePath ==
    server.kind = "Ok" =>
        \A rt \in EntryRoutes :
            LET url == rt.handler.entries[1].url
            IN  rt.uri = IF HostOfUrl(url) = HostOfUrl(har[1].url)
                         THEN PathOfUrl(url)
                         ELSE "/" \o HostOfUrl(url) \o PathOfUrl(url)

\* C9 (as claimed): no two mounted entry routes have the same method and
\* external path.
C9_NoDuplicateRoute ==
    server.kind = "Ok" =>
        \A a, b \in EntryRoutes : (a.method = b.method /\ a.uri = b.uri) => a = b

\* an entry whose method is no verb or whose URL is no URI reference
Malformed(e) == e.method \notin Methods \/ ~(CharsOf(e.url) \subseteq UriChars)

\* C10 (as claimed): with a malformed entry anywhere in the archive (and the
\* override directory, if configured, present) build_server returns an error
\* value, InvalidHarEntryMethod or InvalidHarEntryUri, and no server.
C10_MalformedEntryIsError ==
    ( /\ server.kind # "Unbuilt"
      /\ dump_path = None \/ DumpDir \in DOMAIN fs
      /\ \E i \in DOMAIN har : Malformed(har[i]) ) =>
        /\ server.kind = "Err"
        /\ server.err.error \in {"InvalidHarEntryMethod", "InvalidHarEntryUri"}

\* the request ended in ProxyHandler::handle
ByProxyHandler == Finished /\ Unwrap(outcome).via = "proxy"

\* the one call the handler made upstream, and what came back
Call == upstream[Len(upstream)].call

UpstreamReply == upstream[Len(upstream)].reply

\* C11 (as claimed): the URL sent upstream has the configured origin and
\* exactly the inbound request's path and query, so a request without a query
\* goes upstream without one and /missing?x=9 goes to <upstream>/missing?x=9.
C11_UpstreamUrlIsInbound ==
    ByProxyHandler =>
        /\ Call.url.origin = Unwrap(proxy).origin
        /\ Call.url.path = Unwrap(req).path
        /\ Call.url.query = Unwrap(req).query

\* C12 (as claimed): whatever the upstream replies, the call carried the
\* inbound method and the response has the upstream's status, all of its
\* headers in order, repeated names included, and its body.
C12_RelaysUpstreamReply ==
    (ByProxyHandler /\ UpstreamReply.kind = "response") =>
        /\ Call.method = Unwrap(req).method
        /\ Out.kind = "Success"
        /\ Response.status = UpstreamReply.status
        /\ Response.headers = UpstreamReply.headers
        /\ IsSome(UpstreamReply.body) => Response.body = Unwrap(UpstreamReply.body)

\* C13: a transport failure of the upstream call gives the caller a server
\* error, the call was made once and not again, and the listener is still
\* serving, also for the requests that come after.
C13_TransportFailureIsServerError ==
    /\ (ByProxyHandler /\ UpstreamReply.kind = "transport_error") =>
          /\ Response.status = 500
          /\ Len(upstream) = 1
          /\ listener = "serving"
    /\ failed = "transport" => listener = "serving"

\* C13 witness: after a request that ended in a transport failure, a later
\* request was answered from a recording
C13_Witness ==
    failed = "transport" /\ ByEntryHandler /\ Out.kind = "Success"

\* C13 witness: the transport failure itself
C13_WitnessFailure ==
    ByProxyHandler /\ UpstreamReply.kind = "transport_error" /\ Response.status = 500

\* requests of every method, to paths the replay server routes and to others
AnyRequests ==
    [method : Methods, path : {"/", "/a", "/cdn.net/a", "/missing"}, query : {None, Some("x=1")}]

\* C14: the Rocket built by build_blackhole has no route and no managed
\* state, no request of any method and path finds a route on it, and every
\* request it got was answered not found.
C14_BlackholeAnswersNotFound ==
    /\ blackhole.kind = "Ok" =>
          /\ blackhole.val.routes = {}
          /\ blackhole.val.managed = {}
          /\ \A r \in AnyRequests : Candidates(blackhole.val.routes, r) = <<>>
    /\ sunk # None => Unwrap(sunk).response.status = 404

\* C14 witness: the blackhole answered not found a request that a route of
\* the replay server matches
C14_Witness ==
    /\ sunk # None /\ Unwrap(sunk).response.status = 404
    /\ server.kind = "Ok" /\ GroupsFor(Unwrap(sunk).req) # {}
    /\ RecordingMatches(Unwrap(sunk).req)

\* C15 (as claimed): once launched, the blackhole is bound to the blackhole
\* port and the replay server to the replay port, both are serving, and the
\* two ports are different when the configured ports are.
C15_BothListenersOnTheirPorts ==
    (listener # "none" /\ ~HasCollision(server.val.routes)) =>
        /\ server.val.config.port = Port
        /\ blackhole.val.config.port = BlackholePort
        /\ listener = "serving" /\ blackhole_listener = "serving"
        /\ Port # BlackholePort => server.val.config.port # blackhole.val.config.port

\* C16 (as claimed): when the log has more than one page, every entry of the
\* Har, every entry of a route group and every entry served has the first
\* page's id as its page reference.
C16_OnlyFirstPageEntries ==
    Len(pages) > 1 =>
        /\ \A i \in DOMAIN har : har[i].pageref = Some(pages[1])
        /\ server.kind = "Ok" =>
              \A rt \in EntryRoutes : \A k \in DOMAIN rt.handler.entries :
                  rt.handler.entries[k].pageref = Some(pages[1])
        /\ (ByEntryHandler /\ Out.kind = "Success") => Answering.pageref = Some(pages[1])

\* the served part of C16 alone: an entry of another page is never served
C16_OnlyFirstPageServed ==
    (Len(pages) > 1 /\ ByEntryHandler /\ Out.kind = "Success") =>
        Answering.pageref = Some(pages[1])

\* C17 (as claimed): the status of the response for the selected entry is
\* the entry's recorded status, whatever the recorded integer is.
C17_StatusVerbatim ==
    (ByEntryHandler /\ Out.kind = "Success") => Response.status = Answering.status

\* the recorded headers the handler is to copy as they are: not denylisted,
\* not Location, not Content-Security-Policy
Copied(entry) ==
    {i \in DOMAIN entry.headers :
        to_ascii_lowercase(entry.headers[i].name)
            \notin DenyList \cup {"location", "content-security-policy"}}

\* C18 (as claimed): every recorded header that is not denylisted and is
\* neither Location nor Content-Security-Policy is in the response with its
\* recorded value, every occurrence of a repeated name included.
C18_EveryHeaderCopied ==
    (ByEntryHandler /\ Out.kind = "Success") =>
        \A i \in Copied(Answering) :
            \E j \in DOMAIN Response.headers :
                /\ to_ascii_lowercase(Response.headers[j].name)
                       = to_ascii_lowercase(Answering.headers[i].name)
                /\ Response.headers[j].value = Answering.headers[i].value

\* reading the body of the entry fails: an override directory is configured
\* and what is at the entry's override path cannot be read as a file
ReadFails(dp, entry) ==
    /\ IsSome(dp)
    /\ get_dump_path(entry, Unwrap(dp)).val \in DOMAIN fs
    /\ fs[get_dump_path(entry, Unwrap(dp)).val].kind # "file"

C19_WitnessFailure ==
    ByEntryHandler /\ ReadFails(trail[1].handler.dump_path, Answering) /\ Response.status = 500

\* C20 (as claimed): the override path depends on the base directory, the
\* method and the URL alone, and the path under which the dump command
\* writes an entry is the path under which the replay server looks it up.
C20_DumpAndReplayPathsAgree ==
    /\ \A i, j \in DOMAIN har :
          (har[i].method = har[j].method /\ har[i].url = har[j].url) =>
              get_dump_path(har[i], DumpDir) = get_dump_path(har[j], DumpDir)
    /\ \A i \in DOMAIN har :
          har[i].method = "GET" =>
              entry_to_dump_path(DumpDir, har[i]) = get_dump_path(har[i], DumpDir).val

\* the entries whose URL is absolute and whose method is a verb
Absolute(h) ==
    {i \in DOMAIN h : /\ h[i].method \in Methods
                      /\ StartsWith(h[i].url, "http://") \/ StartsWith(h[i].url, "https://")}

\* C21 (as claimed): the override path is base / METHOD / the URL's authority
\* and path, without the query string, and then "__index__" exactly when the
\* URL's path ends in "/".
C21_DumpPathIsHostAndPath ==
    \A i \in Absolute(har) :
        get_dump_path(har[i], DumpDir)
            = Ok(DumpDir \o "/" \o har[i].method \o "/" \o AuthorityPathOfUrl(har[i].url)
                   \o (IF EndsWith(PathOfUrl(har[i].url), "/") THEN "__index__" ELSE ""))

\* the components of an override path that come from the URL
UrlComponents(p) == SubSeq(Split(p, "/"), 4, Len(Split(p, "/")))

\* C22 (as claimed): every component of the override path that comes from the
\* URL is at most 200 bytes long.
C22_ComponentsAtMost200 ==
    \A i \in Absolute(har) :
        \A k \in DOMAIN UrlComponents(get_dump_path(har[i], DumpDir).val) :
            Len(UrlComponents(get_dump_path(har[i], DumpDir).val)[k]) <= 200

\* every group's entry list is a list of entries of the archive
GroupsAreOfArchive ==
    server.kind = "Ok" =>
        \A rt \in EntryRoutes : \A k \in DOMAIN rt.handler.entries :
            \E i \in DOMAIN har : rt.handler.entries[k] = har[i]

\* C23: once build_server has returned, no step of request handling changes
\* the archive's entry list or the route table with its groups' entry lists,
\* and every group holds entries of the archive.
C23_RequestsLeaveArchiveUnchanged ==
    /\ [][server.kind = "Ok" => (har' = har /\ server' = server)]_vars
    /\ []GroupsAreOfArchive

\* C23 witness: after a request that failed, a request was answered by the
\* proxy, and the groups are those of the archive
C23_Witness ==
    /\ failed # "none" /\ ByProxyHandler /\ Out.kind = "Success"
    /\ EntryRoutes # {} /\ GroupsAreOfArchive

\* what the replay server answers to request r when it is the only request:
\* the matching routes are tried in order, an entry handler either answers or
\* forwards, the proxy handler answers with what the upstream replies
RECURSIVE Alone(_, _)
Alone(cs, r) ==
    IF cs = <<>> THEN {Answered("router", [kind |-> "NotFound", by |-> 0])}
    ELSE IF Head(cs).kind = "proxy"
    THEN {Answered("proxy", ProxyHandler_handle(Head(cs).handler, r, up)) : up \in UpstreamPool}
    ELSE IF EntryHandler_handle(Head(cs).handler, r, fs).kind = "Forward"
    THEN Alone(Tail(cs), r)
    ELSE {Answered("entry", EntryHandler_handle(Head(cs).handler, r, fs))}

\* C24: requests are handled independently.  While a proxied call is pending
\* the server still takes a new request, a request that was taken has a handler
\* to run (and if that is the proxy handler, its own call can be made beside
\* the pending one), and a request that completes gets an answer the server
\* gives that request when it is handled alone: the pending call holds nothing
\* that another request needs.
C24_PendingCallBlocksNothing ==
    waiting # None =>
        /\ (req = None \/ Finished) => ENABLED (\E r \in RequestPool : Receive(r))
        /\ (req # None /\ ~Finished) =>
               /\ cands # <<>>
               /\ Head(cands).kind = "proxy" => ENABLED ProxyHandle
        /\ Finished => outcome \in Alone(Candidates(server.val.routes, Unwrap(req)), Unwrap(req))

\* a request was answered from the archive while a proxied call was pending
C24_Witness ==
    /\ waiting # None
    /\ ByEntryHandler /\ Out.kind = "Success"
    /\ Unwrap(waiting).req # Unwrap(req)

\* the override directory is configured and is not there
DirectoryMissing == IsSome(dump_path) /\ Unwrap(dump_path) \notin DOMAIN fs

\* C25: with an override directory configured that does not exist, build_server
\* aborts with no route table made and neither listener is ever started; with
\* none configured the directory check is skipped, and the build returns what
\* the route building returns (looked at when the build has returned, before
\* the launch).
C25_MissingDirectoryAbortsBuild ==
    /\ DirectoryMissing =>
          /\ server \in {[kind |-> "Unbuilt"], Panic("dump path doesn't exist")}
          /\ blackhole.kind = "Unbuilt"
          /\ listener = "none" /\ blackhole_listener = "none"
          /\ req = None /\ sunk = None
    /\ (dump_path = None /\ server.kind # "Unbuilt" /\ listener = "none") =>
          /\ server \in BuildRoutes(har, Port, None, proxy, origin_host(har), entries(har))
          /\ server # Panic("dump path doesn't exist")

\* the build was tried with the configured directory missing
C25_Witness ==
    /\ DirectoryMissing
    /\ server = Panic("dump path doesn't exist")
    /\ listener = "none"

\* header names a caller may ask for, in several letter cases
LookupNames ==
    {"Content-Type", "content-type", "CONTENT-TYPE", "Location", "location", "LOCATION",
     "Set-Cookie", "set-cookie", "X-Missing"}

\* the positions of the headers whose name is `name` when letter case is ignored
NamedLike(headers, name) ==
    {k \in DOMAIN headers : to_lowercase(headers[k].name) = to_lowercase(name)}

\* C26: the header lookup ignores letter case in the stored name and in the
\* requested name and gives the value of the first header of that name in list
\* order, None only when the list has no header of that name.
C26_LookupIgnoresCase ==
    \A i \in DOMAIN har : \A name \in LookupNames :
        res_header(har[i], name) =
            IF NamedLike(har[i].headers, name) = {} THEN None
            ELSE Some(har[i].headers[Min(NamedLike(har[i].headers, name))].value)

\* the base64 alphabet of RFC 4648; a character's value is its position less one
Base64Alphabet == "ABCDEFGHIJKLMNOPQRSTUVWXYZabcdefghijklmnopqrstuvwxyz0123456789+/"

Sextet(c) == Find(Base64Alphabet, c) - 1

\* the characters of the bytes 32 to 95 and 97 to 126
AsciiLow == " !\"#$%&'()*+,-./0123456789:;<=>?@ABCDEFGHIJKLMNOPQRSTUVWXYZ[\\]^_"

AsciiHigh == "abcdefghijklmnopqrstuvwxyz{|}~"

\* the character of byte n; a byte that is no printable character shows as DEL
Chr(n) ==
    IF n \in 32..95 THEN CharAt(AsciiLow, n - 31)
    ELSE IF n \in 97..126 THEN CharAt(AsciiHigh, n - 96)
    ELSE "DEL"

\* the number of "=" that end the text
Padding(t) ==
    IF EndsWith(t, "==") THEN 2 ELSE IF EndsWith(t, "=") THEN 1 ELSE 0

\* padded standard base64: whole groups of four, alphabet characters before the
\* padding, and no stray bits in the last character before it
IsBase64(t) ==
    /\ Len(t) % 4 = 0
    /\ \A i \in 1..(Len(t) - Padding(t)) : Sextet(CharAt(t, i)) >= 0
    /\ Padding(t) = 1 => Sextet(CharAt(t, Len(t) - 1)) % 4 = 0
    /\ Padding(t) = 2 => Sextet(CharAt(t, Len(t) - 2)) % 16 = 0

\* the bytes of one group of four characters, `pad` of them padding
GroupBytes(g, pad) ==
    LET a == Sextet(CharAt(g, 1))
        b == Sextet(CharAt(g, 2))
        c == IF pad = 2 THEN 0 ELSE Sextet(CharAt(g, 3))
        d == IF pad >= 1 THEN 0 ELSE Sextet(CharAt(g, 4))
    IN  Chr(a * 4 + b \div 16)
            \o (IF pad = 2 THEN "" ELSE Chr((b % 16) * 16 + c \div 4))
            \o (IF pad >= 1 THEN "" ELSE Chr((c % 4) * 64 + d))

RECURSIVE Base64Decoded(_)
Base64Decoded(t) ==
    IF Len(t) = 0 THEN ""
    ELSE IF Len(t) = 4 THEN GroupBytes(t, Padding(t))
    ELSE GroupBytes(SubSeq(t, 1, 4), 0) \o Base64Decoded(From(t, 5))

\* C27: res_body gives the standard base64 decoding of the recorded text when
\* the text is base64, the text itself when it is not, and no body only when
\* no text was recorded.  Stated of every entry of the archive once an entry
\* handler has answered from it.
C27_BodyIsDecodedOrRaw ==
    ByEntryHandler =>
        \A i \in DOMAIN har :
            res_body(har[i]) =
                IF har[i].text = None THEN None
                ELSE IF IsBase64(Unwrap(har[i].text))
                THEN Some(Base64Decoded(Unwrap(har[i].text)))
                ELSE Some(Unwrap(har[i].text))

\* the archive has a base64 body and a plain-text body, and the plain one
\* was served as recorded
C27_Witness ==
    /\ ByEntryHandler /\ Out.kind = "Success"
    /\ \E i \in DOMAIN har : har[i].text = Some("aGk=") /\ res_body(har[i]) = Some("hi")
    /\ Answering.text = Some("<p>no</p>") /\ Out.res.body = "<p>no</p>"

\* every entry has a recognized verb and a URL that parses as a URI reference
WellFormed(h) == \A i \in DOMAIN h : ~Malformed(h[i])

\* C28: for an archive of entries with recognized verbs and URLs that parse,
\* absolute or origin-relative, Har::entries and Har::origin_host give a value
\* or an error value and build_server ends with a route table or an error
\* value; none of them aborts (the missing override directory apart).
C28_RelativeUrlsAreAccepted ==
    (WellFormed(har) /\ ~DirectoryMissing) =>
        /\ entries(har).kind \in {"Ok", "Err"}
        /\ origin_host(har).kind \in {"Ok", "Err"}
        /\ server.kind \in {"Unbuilt", "Ok", "Err"}

\* ProxyHandler::handle got as far as reading the body: the call returned a
\* reply, its status and header values were converted, which the handler does
\* before it reads the body, and the read failed
BodyReadFailed ==
    /\ ByProxyHandler /\ UpstreamReply.kind = "response"
    /\ UpstreamReply.status \in StandardCodes
    /\ \A i \in DOMAIN UpstreamReply.headers : IsOk(to_str(UpstreamReply.headers[i].value))
    /\ UpstreamReply.body = None

\* C29: when the upstream's status and headers arrived and reading its body
\* fails, ProxyHandler::handle still returns a success outcome with the upstream
\* status and headers and no body, and the client gets that response, not a
\* server error.
C29_BodyFailureStillSucceeds ==
    BodyReadFailed =>
        /\ Out.kind = "Success"
        /\ Out.res.status = UpstreamReply.status
        /\ Out.res.headers = UpstreamReply.headers
        /\ Out.res.body = ""
        /\ Response = Out.res

\* the upstream's 404 was relayed although its body could not be read
C29_Witness ==
    /\ BodyReadFailed
    /\ Response.status = 404
    /\ Response.headers = <<Header("Content-Length", "2")>>
====
